---- MODULE Spec2Model ----
(***************************************************************************)
(* Model of the overlay registry (hooks/useMapOverlays.js), the edit-mode  *)
(* state of App.jsx, the geometry helpers (utils/geoUtils.js) and the      *)
(* gesture handling of DraggableOverlay (components/Map/MapView.jsx).      *)
(*                                                                         *)
(* Number representation.  Longitudes and latitudes are whole degrees.     *)
(* Angles are counted in quarter turns (1 = pi/2), so that Math.cos,       *)
(* Math.sin and Math.atan2 are exact on the inputs the model draws: every  *)
(* pointer vector whose angle is taken is axis aligned.  A Mercator scale  *)
(* is a reduced fraction <<numerator, denominator>>; cos(latitude) is read *)
(* from a table in thousandths.  A JavaScript null is None (the empty      *)
(* tuple) and a present value x is Some(x).                                *)
(***************************************************************************)
EXTENDS Integers, Sequences, FiniteSets, TLC

VARIABLES
  overlays,           \* useMapOverlays: overlays (list of overlay records)
  selectedOverlayId,  \* useMapOverlays: selectedOverlayId
  editModeId,         \* App: editModeId
  comp,               \* the refs of the DraggableOverlay mounted for overlays[i]
  mapDragging,        \* Leaflet map.dragging enabled
  mapClasses,         \* CSS classes on the map container
  orphanTimers,       \* setInterval timers of components that were unmounted
  lastPanBy,          \* argument of the last map.panBy call
  gesture,            \* history variable: what gesture start and the latest move recorded
  cached,             \* stateLoader: cachedUSStates, cachedIndiaStates, cachedPakistanProvinces
  fetchCount,         \* the fetch calls made so far, by boundary source
  hooks,              \* useStateSearch: the state of every instance mounted so far
  box                 \* SearchBox: isOpen and highlightedIndex

\* the map and its overlays
mapVars == <<overlays, selectedOverlayId, editModeId, comp, mapDragging,
             mapClasses, orphanTimers, lastPanBy, gesture>>

\* the boundary data and the search box
searchVars == <<cached, fetchCount, hooks, box>>

vars == <<overlays, selectedOverlayId, editModeId, comp, mapDragging,
          mapClasses, orphanTimers, lastPanBy, gesture, cached, fetchCount,
          hooks, box>>

----------------------------------------------------------------------------
(* Values *)

None == <<>>
Some(x) == <<x>>
IsSome(o) == o # <<>>
Get(o) == o[1]

Abs(n) == IF n < 0 THEN -n ELSE n
Min(a, b) == IF a < b THEN a ELSE b
Max(a, b) == IF a > b THEN a ELSE b

RECURSIVE Gcd(_, _)
Gcd(a, b) == IF b = 0 THEN a ELSE Gcd(b, a % b)

\* a / b for two positive numbers, as a reduced fraction
Frac(a, b) == LET g == Gcd(a, b) IN <<a \div g, b \div g>>

\* (a / b) / (c / d)
FracDiv(p, q) == Frac(p[1] * q[2], p[2] * q[1])

One == <<1, 1>>

----------------------------------------------------------------------------
(* Program constants *)

EDGE_PAN_THRESHOLD == 50
EDGE_PAN_SPEED == 15
DOUBLE_TAP_MS == 300
MAX_LAT == 85

(* Bounds of the model *)

MaxOverlays == 2      \* overlays at once in SpecTwo and SpecRegistry
MaxOffsetLng == 30    \* |offset[0]| a drag may reach
MaxOffsetLat == 60    \* |offset[1]| a drag may reach
MaxRotation == 1      \* |rotation| in quarter turns a rotation may reach
ViewWidth == 200      \* the map container's rectangle is [0, ViewWidth] x [0, ViewHeight]
ViewHeight == 200

----------------------------------------------------------------------------
(* Coordinate trees.  A leaf is a point, an inner node a list of trees.    *)

Pt(lng, lat) == [kind |-> "pt", at |-> <<lng, lat>>]
Node(kids) == [kind |-> "node", kids |-> kids]

\* typeof coords[0] === 'number'
IsPoint(c) == c.kind = "pt"

RECURSIVE SumX(_)
SumX(c) == IF IsPoint(c) THEN c.at[1]
           ELSE IF c.kids = <<>> THEN 0
           ELSE SumX(Head(c.kids)) + SumX(Node(Tail(c.kids)))

RECURSIVE SumY(_)
SumY(c) == IF IsPoint(c) THEN c.at[2]
           ELSE IF c.kids = <<>> THEN 0
           ELSE SumY(Head(c.kids)) + SumY(Node(Tail(c.kids)))

RECURSIVE CountPoints(_)
CountPoints(c) == IF IsPoint(c) THEN 1
                  ELSE IF c.kids = <<>> THEN 0
                  ELSE CountPoints(Head(c.kids)) + CountPoints(Node(Tail(c.kids)))

\* [NaN, NaN], what [0 / 0, 0 / 0] is in JavaScript; written as the empty
\* tuple, which differs from every [lng, lat]
NaNPoint == <<>>

\* geoUtils.calculateCentroid: the mean of all leaf points; of a tree without
\* points, 0 / 0 twice.  The features of the model that have points have
\* point sums that divide exactly.
calculateCentroid(coordinates) ==
  IF CountPoints(coordinates) = 0
  THEN NaNPoint
  ELSE <<SumX(coordinates) \div CountPoints(coordinates),
         SumY(coordinates) \div CountPoints(coordinates)>>

\* Math.cos of a latitude in degrees, in thousandths (cos is even)
CosMilli(latDeg) ==
  CASE Abs(latDeg) = 0  -> 1000
    [] Abs(latDeg) = 30 -> 866
    [] Abs(latDeg) = 60 -> 500
    [] Abs(latDeg) = 85 -> 87

\* a scale factor clamped at 30 degrees already
getMercatorScaleFactorClampedEarly(latDegrees) ==
  LET lat == Max(-30, Min(30, latDegrees))
  IN  Frac(1000, CosMilli(lat))

\* geoUtils.getMercatorScaleFactor: 1 / cos(clamp(lat, -85, 85))
getMercatorScaleFactor(latDegrees) ==
  LET lat == Max(-MAX_LAT, Min(MAX_LAT, latDegrees))
  IN  Frac(1000, CosMilli(lat))

\* a translation that keeps latitudes inside [-90, 90]
RECURSIVE translateCoordinatesClamped(_, _, _)
translateCoordinatesClamped(coordinates, deltaLng, deltaLat) ==
  IF IsPoint(coordinates)
  THEN Pt(coordinates.at[1] + deltaLng,
          Max(-90, Min(90, coordinates.at[2] + deltaLat)))
  ELSE Node([i \in 1..Len(coordinates.kids) |->
               translateCoordinatesClamped(coordinates.kids[i], deltaLng, deltaLat)])

RECURSIVE translateCoordinates(_, _, _)
translateCoordinates(coordinates, deltaLng, deltaLat) ==
  IF IsPoint(coordinates)
  THEN Pt(coordinates.at[1] + deltaLng, coordinates.at[2] + deltaLat)
  ELSE Node([i \in 1..Len(coordinates.kids) |->
               translateCoordinates(coordinates.kids[i], deltaLng, deltaLat)])

\* Math.cos and Math.sin of an angle in quarter turns
CosQ(a) == CASE a % 4 = 0 -> 1 [] a % 4 = 1 -> 0 [] a % 4 = 2 -> -1 [] a % 4 = 3 -> 0
SinQ(a) == CASE a % 4 = 0 -> 0 [] a % 4 = 1 -> 1 [] a % 4 = 2 -> 0 [] a % 4 = 3 -> -1

\* a rotation that returns each ring without its closing point
RECURSIVE rotateCoordinatesOpenRing(_, _, _, _)
rotateCoordinatesOpenRing(coordinates, centerLng, centerLat, angleRad) ==
  IF IsPoint(coordinates)
  THEN LET dx == coordinates.at[1] - centerLng
           dy == coordinates.at[2] - centerLat
           cos == CosQ(angleRad)
           sin == SinQ(angleRad)
       IN  Pt(centerLng + dx * cos - dy * sin, centerLat + dx * sin + dy * cos)
  ELSE LET n == IF coordinates.kids # <<>> /\ IsPoint(coordinates.kids[1])
                THEN Len(coordinates.kids) - 1
                ELSE Len(coordinates.kids)
       IN  Node([i \in 1..n |->
                   rotateCoordinatesOpenRing(coordinates.kids[i], centerLng,
                                             centerLat, angleRad)])

RECURSIVE rotateCoordinates(_, _, _, _)
rotateCoordinates(coordinates, centerLng, centerLat, angleRad) ==
  IF IsPoint(coordinates)
  THEN LET dx == coordinates.at[1] - centerLng
           dy == coordinates.at[2] - centerLat
           cos == CosQ(angleRad)
           sin == SinQ(angleRad)
       IN  Pt(centerLng + dx * cos - dy * sin, centerLat + dx * sin + dy * cos)
  ELSE Node([i \in 1..Len(coordinates.kids) |->
               rotateCoordinates(coordinates.kids[i], centerLng, centerLat, angleRad)])

\* geoUtils.cloneGeometry: JSON.parse(JSON.stringify(g)) of a value is the value
cloneGeometry(geometry) == geometry

\* Math.atan2(dy, dx) in quarter turns, for an axis-aligned vector
AxisAligned(dy, dx) == dy = 0 \/ dx = 0
Atan2Q(dy, dx) ==
  CASE dy = 0 /\ dx >= 0 -> 0
    [] dy > 0 /\ dx = 0  -> 1
    [] dy = 0 /\ dx < 0  -> 2
    [] dy < 0 /\ dx = 0  -> -1

----------------------------------------------------------------------------
(* Boundary features, as the loaders of data/stateLoader.js hand them to   *)
(* addOverlay: properties {name, code} and a geometry.  Each ring is       *)
(* closed (its first point is repeated at the end).                        *)

TexasRing == Node(<<Pt(-30, 0), Pt(30, -60), Pt(30, 60), Pt(-30, 0)>>)
AlaskaRing == Node(<<Pt(0, 90), Pt(30, 30), Pt(-30, 30), Pt(0, 90)>>)

Features ==
  { [name |-> "Texas", code |-> "TX",
     geometry |-> [type |-> "Polygon", coordinates |-> Node(<<TexasRing>>)]],
    [name |-> "Alaska", code |-> "AK",
     geometry |-> [type |-> "MultiPolygon",
                   coordinates |-> Node(<<Node(<<AlaskaRing>>)>>)]] }

FeatureNamed(name) == CHOOSE f \in Features : f.name = name

\* a feature whose geometry has no points
EmptyFeature ==
  [name |-> "Nowhere", code |-> "NO",
   geometry |-> [type |-> "Polygon", coordinates |-> Node(<<>>)]]

\* the features and clock readings addOverlay is called with in SpecRegistry
RegistryFeatures == {FeatureNamed("Alaska"), EmptyFeature}
RegistryStamps == {1, 2}

\* the partial fields updateOverlay is called with in SpecRegistry
Patches ==
  { [offset |-> <<30, 60>>, rotation |-> 1],
    [originalCentroid |-> <<1, 1>>,
     originalGeometry |-> [type |-> "Polygon", coordinates |-> Node(<<TexasRing>>)],
     name |-> "Renamed"] }

\* the clock readings Date.now() may give when an overlay is created
Stamps == {1}

\* geographic positions [lng, lat] the map adapter resolves a pointer to
Geos == {<<0, 0>>, <<30, 60>>}

\* pointer positions (clientX, clientY): mid-map and left margin
Clients == {<<100, 100>>, <<10, 100>>}

\* the touch points of a two-finger contact: screen angles 0 and pi/2
TouchPairs ==
  { <<<<100, 100>>, <<150, 100>>>>, <<<<100, 100>>, <<100, 150>>>> }

\* the touch lists: one, two or three contacts
TouchLists ==
  {<<p>> : p \in Clients} \cup TouchPairs
    \cup {<<<<100, 100>>, <<150, 100>>, <<100, 150>>>>}

\* the inputs and bounds a specification draws from
Inputs ==
  [maxOverlays |-> 1, features |-> Features, buttons |-> {0, 2}, geos |-> Geos,
   clients |-> Clients, touchLists |-> TouchLists, maxLng |-> MaxOffsetLng,
   maxLat |-> MaxOffsetLat, maxRotation |-> MaxRotation]

\* two overlays, one geographic position and one touch angle: the
\* transforms stay the identity
InputsTwo ==
  [maxOverlays |-> MaxOverlays, features |-> Features, buttons |-> {0},
   geos |-> {<<0, 0>>}, clients |-> Clients,
   touchLists |-> {<<<<100, 100>>>>, <<<<100, 100>>, <<150, 100>>>>},
   maxLng |-> MaxOffsetLng, maxLat |-> MaxOffsetLat, maxRotation |-> MaxRotation]

\* one overlay and pointer positions in two margins: mid-map, the left
\* margin and the top left corner
InputsEdge ==
  [maxOverlays |-> 1, features |-> {FeatureNamed("Texas")}, buttons |-> {0},
   geos |-> Geos, clients |-> Clients \cup {<<10, 10>>},
   touchLists |-> {<<<<100, 100>>>>, <<<<100, 100>>, <<150, 100>>>>},
   maxLng |-> MaxOffsetLng, maxLat |-> MaxOffsetLat, maxRotation |-> MaxRotation]

----------------------------------------------------------------------------
(* Overlay registry: hooks/useMapOverlays.js *)

\* addOverlay with the centroid left at the origin of the map instead of
\* computed from the geometry
NewOverlayCentredAtOrigin(stateFeature, now) ==
  [id |-> <<stateFeature.code, now>>,
   name |-> stateFeature.name,
   code |-> stateFeature.code,
   geometry |-> cloneGeometry(stateFeature.geometry),
   originalGeometry |-> cloneGeometry(stateFeature.geometry),
   centroid |-> <<0, 0>>,
   originalCentroid |-> <<0, 0>>,
   rotation |-> 0,
   scale |-> 1,
   offset |-> <<0, 0>>,
   mercatorScale |-> One]

\* the overlay addOverlay builds; now is Date.now()
NewOverlay(stateFeature, now) ==
  LET geometry == cloneGeometry(stateFeature.geometry)
      centroid == calculateCentroid(geometry.coordinates)
  IN  [id |-> <<stateFeature.code, now>>,
       name |-> stateFeature.name,
       code |-> stateFeature.code,
       geometry |-> geometry,
       originalGeometry |-> cloneGeometry(stateFeature.geometry),
       centroid |-> centroid,
       originalCentroid |-> centroid,
       rotation |-> 0,
       scale |-> 1,
       offset |-> <<0, 0>>,
       mercatorScale |-> One]

\* { ...o, ...updates }
Merge(o, updates) ==
  [k \in DOMAIN o \cup DOMAIN updates |->
     IF k \in DOMAIN updates THEN updates[k] ELSE o[k]]

\* prev.map(o => o.id === id ? { ...o, ...updates } : o)
updateOverlay(prev, id, updates) ==
  [i \in 1..Len(prev) |-> IF prev[i].id = id THEN Merge(prev[i], updates) ELSE prev[i]]

\* a reset that leaves mercatorScale as it was
ResetFieldsKeepScale(o) ==
  [geometry |-> cloneGeometry(o.originalGeometry),
   centroid |-> o.originalCentroid,
   offset |-> <<0, 0>>,
   rotation |-> 0]

\* a reset that leaves the centroid where the overlay was moved to
ResetFieldsKeepCentroid(o) ==
  [geometry |-> cloneGeometry(o.originalGeometry),
   offset |-> <<0, 0>>,
   rotation |-> 0,
   mercatorScale |-> One]

\* the fields resetOverlay writes
ResetFields(o) ==
  [geometry |-> cloneGeometry(o.originalGeometry),
   centroid |-> o.originalCentroid,
   offset |-> <<0, 0>>,
   rotation |-> 0,
   mercatorScale |-> One]

resetOverlay(prev, id) ==
  [i \in 1..Len(prev) |->
     IF prev[i].id # id THEN prev[i] ELSE Merge(prev[i], ResetFields(prev[i]))]

\* the elements of s at the positions where prev's overlay has another id
RECURSIVE KeepOthers(_, _, _)
KeepOthers(s, prev, id) ==
  IF s = <<>> THEN <<>>
  ELSE IF Head(prev).id = id THEN KeepOthers(Tail(s), Tail(prev), id)
  ELSE <<Head(s)>> \o KeepOthers(Tail(s), Tail(prev), id)

\* prev.filter(o => o.id !== id)
removeOverlay(prev, id) == KeepOthers(prev, prev, id)

----------------------------------------------------------------------------
(* DraggableOverlay: the refs of one mounted component *)

InitRefs ==
  [isDragging |-> FALSE,
   isRotating |-> FALSE,
   dragStart |-> None,
   edgePanInterval |-> None,     \* Some(<<panX, panY>>) while the timer runs
   lastTouchAngle |-> None,
   startRotation |-> 0,
   lastTapAge |-> DOUBLE_TAP_MS] \* Date.now() - lastTapTime, capped at 300

\* history of the gesture of one component: what its start recorded and what
\* its latest move measured
NoGestureRecord ==
  [kind |-> "none", startOffset |-> None, startGeo |-> None, startRotation |-> None,
   startAngle |-> None, lastGeo |-> None, lastAngle |-> None]

isEditMode(i) == overlays[i].id = editModeId
isSelected(i) == overlays[i].id = selectedOverlayId
Gesturing(i) == comp[i].isDragging \/ comp[i].isRotating

\* stopEdgePan
stopEdgePan(c) == [c EXCEPT !.edgePanInterval = None]

\* the pan vector checkEdgePan derives from the pointer position
EdgePanVector(clientX, clientY) ==
  LET panX == IF clientX - 0 < EDGE_PAN_THRESHOLD THEN -EDGE_PAN_SPEED
              ELSE IF ViewWidth - clientX < EDGE_PAN_THRESHOLD THEN EDGE_PAN_SPEED
              ELSE 0
      panY == IF clientY - 0 < EDGE_PAN_THRESHOLD THEN -EDGE_PAN_SPEED
              ELSE IF ViewHeight - clientY < EDGE_PAN_THRESHOLD THEN EDGE_PAN_SPEED
              ELSE 0
  IN  <<panX, panY>>

checkEdgePan(c, clientX, clientY) ==
  LET pan == EdgePanVector(clientX, clientY)
  IN  IF pan[1] # 0 \/ pan[2] # 0
      THEN IF ~IsSome(c.edgePanInterval)
           THEN [c EXCEPT !.edgePanInterval = Some(pan)]
           ELSE c
      ELSE stopEdgePan(c)

getTouchAngle(touch1, touch2) == Atan2Q(touch2[2] - touch1[2], touch2[1] - touch1[1])

\* a cleanup that ends a drag and leaves a rotation going
cleanupKeepsRotating(c) ==
  stopEdgePan([c EXCEPT !.isDragging = FALSE,
                        !.dragStart = IF c.isRotating THEN c.dragStart ELSE None])

\* the refs cleanup() leaves
cleanup(c) ==
  stopEdgePan([c EXCEPT !.isDragging = FALSE,
                        !.isRotating = FALSE,
                        !.dragStart = None,
                        !.lastTouchAngle = None,
                        !.startRotation = 0])

\* an update that rotates about the centroid the overlay had before the move
GeometryUpdateStaleCentre(o, newOffset, newRotation) ==
  LET newCentroidLat == o.originalCentroid[2] + newOffset[2]
      originalCentroidLat == o.originalCentroid[2]
      originalScale == getMercatorScaleFactor(originalCentroidLat)
      newScale == getMercatorScaleFactor(newCentroidLat)
      visualScaleFactor == FracDiv(newScale, originalScale)
      translated == translateCoordinates(o.originalGeometry.coordinates,
                                         newOffset[1], newOffset[2])
      newCentroid == <<o.originalCentroid[1] + newOffset[1],
                       o.originalCentroid[2] + newOffset[2]>>
      newCoords == IF newRotation # 0
                   THEN rotateCoordinates(translated, o.centroid[1], o.centroid[2],
                                          newRotation)
                   ELSE translated
      newGeometry == [cloneGeometry(o.originalGeometry) EXCEPT !.coordinates = newCoords]
  IN  [offset |-> newOffset,
       geometry |-> newGeometry,
       centroid |-> newCentroid,
       rotation |-> newRotation,
       mercatorScale |-> visualScaleFactor]

\* an update without the clone: the assignment to newGeometry.coordinates
\* lands in overlay.originalGeometry
GeometryUpdateNoClone(o, newOffset, newRotation) ==
  LET newCentroidLat == o.originalCentroid[2] + newOffset[2]
      originalCentroidLat == o.originalCentroid[2]
      originalScale == getMercatorScaleFactor(originalCentroidLat)
      newScale == getMercatorScaleFactor(newCentroidLat)
      visualScaleFactor == FracDiv(newScale, originalScale)
      translated == translateCoordinates(o.originalGeometry.coordinates,
                                         newOffset[1], newOffset[2])
      newCentroid == <<o.originalCentroid[1] + newOffset[1],
                       o.originalCentroid[2] + newOffset[2]>>
      newCoords == IF newRotation # 0
                   THEN rotateCoordinates(translated, newCentroid[1], newCentroid[2],
                                          newRotation)
                   ELSE translated
      newGeometry == [o.originalGeometry EXCEPT !.coordinates = newCoords]
  IN  [offset |-> newOffset,
       geometry |-> newGeometry,
       originalGeometry |-> newGeometry,
       centroid |-> newCentroid,
       rotation |-> newRotation,
       mercatorScale |-> visualScaleFactor]

\* the fields updateGeometry hands to onUpdate for overlay o
GeometryUpdate(o, newOffset, newRotation) ==
  LET newCentroidLat == o.originalCentroid[2] + newOffset[2]
      originalCentroidLat == o.originalCentroid[2]
      originalScale == getMercatorScaleFactor(originalCentroidLat)
      newScale == getMercatorScaleFactor(newCentroidLat)
      visualScaleFactor == FracDiv(newScale, originalScale)
      translated == translateCoordinates(o.originalGeometry.coordinates,
                                         newOffset[1], newOffset[2])
      newCentroid == <<o.originalCentroid[1] + newOffset[1],
                       o.originalCentroid[2] + newOffset[2]>>
      newCoords == IF newRotation # 0
                   THEN rotateCoordinates(translated, newCentroid[1], newCentroid[2],
                                          newRotation)
                   ELSE translated
      newGeometry == [cloneGeometry(o.originalGeometry) EXCEPT !.coordinates = newCoords]
  IN  [offset |-> newOffset,
       geometry |-> newGeometry,
       centroid |-> newCentroid,
       rotation |-> newRotation,
       mercatorScale |-> visualScaleFactor]

\* an offset that forgets where the pointer was pressed
DragOffsetFromOrigin(ds, latlng) ==
  <<ds.currentOffset[1] + latlng[1], ds.currentOffset[2] + latlng[2]>>

\* newOffset of the move handlers: the offset at the press plus the pointer's
\* geographic displacement since the press
DragOffset(ds, latlng) ==
  LET deltaLng == latlng[1] - Get(ds.latlng)[1]
      deltaLat == latlng[2] - Get(ds.latlng)[2]
  IN  <<ds.currentOffset[1] + deltaLng, ds.currentOffset[2] + deltaLat>>

calculateAngle(center, point) == Atan2Q(point[2] - center[2], point[1] - center[1])

\* startDrag: the refs it leaves for overlay o
startDrag(c, o, latlng, isRotationMode) ==
  [c EXCEPT !.isRotating = isRotationMode,
            !.isDragging = ~isRotationMode,
            !.dragStart = Some([latlng |-> Some(latlng),
                                centroid |-> o.centroid,
                                currentOffset |-> o.offset,
                                currentRotation |-> o.rotation]),
            !.startRotation = o.rotation]

\* the two-finger branch with the snapshot of the running drag kept, instead
\* of taken anew from the overlay
startTouchRotateStaleSnapshot(c, o, touches) ==
  [c EXCEPT !.isRotating = TRUE,
            !.isDragging = FALSE,
            !.lastTouchAngle = Some(getTouchAngle(touches[1], touches[2])),
            !.dragStart = IF IsSome(@) THEN @
                          ELSE Some([latlng |-> None,
                                     centroid |-> o.centroid,
                                     currentOffset |-> o.offset,
                                     currentRotation |-> o.rotation])]

\* the two-finger branch of handleTouchStart: the refs it leaves
startTouchRotate(c, o, touches) ==
  [c EXCEPT !.isRotating = TRUE,
            !.isDragging = FALSE,
            !.lastTouchAngle = Some(getTouchAngle(touches[1], touches[2])),
            !.startRotation = o.rotation,
            !.dragStart = Some([latlng |-> None,
                                centroid |-> o.centroid,
                                currentOffset |-> o.offset,
                                currentRotation |-> o.rotation])]

\* history: what a gesture start records
StartRecord(kind, o, geo, angle) ==
  [kind |-> kind, startOffset |-> Some(o.offset), startGeo |-> geo,
   startRotation |-> Some(o.rotation), startAngle |-> angle,
   lastGeo |-> None, lastAngle |-> None]

\* what one component's handler did with an event
Unchanged(c, g) == [c |-> c, g |-> g, upd |-> None, threw |-> FALSE]

\* the mousemove handler of the component of overlay o
MouseMoveOne(o, c, g, latlng, client) ==
  IF ~IsSome(c.dragStart) THEN Unchanged(c, g)
  ELSE
    LET ds == Get(c.dragStart)
        c1 == checkEdgePan(c, client[1], client[2])
    IN  IF c.isRotating
        THEN IF ~IsSome(ds.latlng)
             THEN \* calculateAngle reads point.lat of null: TypeError
                  [c |-> c1, g |-> g, upd |-> None, threw |-> TRUE]
             ELSE LET startAngle == calculateAngle(o.centroid, Get(ds.latlng))
                      currentAngle == calculateAngle(o.centroid, latlng)
                      deltaAngle == currentAngle - startAngle
                      newRotation == ds.currentRotation + deltaAngle
                  IN  [c |-> c1,
                       g |-> [g EXCEPT !.lastAngle = Some(currentAngle)],
                       upd |-> Some(GeometryUpdate(o, o.offset, newRotation)),
                       threw |-> FALSE]
        ELSE IF c.isDragging
        THEN LET newOffset == DragOffset(ds, latlng)
             IN  [c |-> c1,
                  g |-> [g EXCEPT !.lastGeo = Some(latlng)],
                  upd |-> Some(GeometryUpdate(o, newOffset, o.rotation)),
                  threw |-> FALSE]
        ELSE [c |-> c1, g |-> g, upd |-> None, threw |-> FALSE]

\* the document touchmove handler of the component of overlay o; latlng is
\* what map.containerPointToLatLng gives for the first touch
TouchMoveOne(o, c, g, touches, latlng) ==
  IF ~c.isDragging /\ ~c.isRotating THEN Unchanged(c, g)
  ELSE IF Len(touches) = 1 /\ c.isDragging /\ IsSome(c.dragStart)
  THEN LET ds == Get(c.dragStart)
           c1 == checkEdgePan(c, touches[1][1], touches[1][2])
           newOffset == DragOffset(ds, latlng)
       IN  [c |-> c1,
            g |-> [g EXCEPT !.lastGeo = Some(latlng)],
            upd |-> Some(GeometryUpdate(o, newOffset, ds.currentRotation)),
            threw |-> FALSE]
  ELSE IF Len(touches) = 2 /\ c.isRotating
  THEN LET currentAngle == getTouchAngle(touches[1], touches[2])
           c1 == [c EXCEPT !.lastTouchAngle = Some(currentAngle)]
           g1 == [g EXCEPT !.lastAngle = Some(currentAngle)]
       IN  IF IsSome(c.lastTouchAngle)
           THEN LET deltaAngle == currentAngle - Get(c.lastTouchAngle)
                    newRotation == c.startRotation + deltaAngle
                IN  [c |-> [c1 EXCEPT !.startRotation = newRotation],
                     g |-> g1,
                     upd |-> Some(GeometryUpdate(o, Get(c.dragStart).currentOffset,
                                                 newRotation)),
                     threw |-> FALSE]
           ELSE [c |-> c1, g |-> g1, upd |-> None, threw |-> FALSE]
  ELSE Unchanged(c, g)

\* the numbers of an update stay inside the ranges of the inputs B
InRange(r, B) ==
  IsSome(r.upd) =>
    /\ Abs(Get(r.upd).offset[1]) <= B.maxLng
    /\ Abs(Get(r.upd).offset[2]) <= B.maxLat
    /\ Abs(Get(r.upd).rotation) <= B.maxRotation

\* the angles the mousemove handler of component i takes are quarter turns
MouseAnglesExact(i, latlng) ==
  (comp[i].isRotating /\ IsSome(comp[i].dragStart)
     /\ IsSome(Get(comp[i].dragStart).latlng)) =>
    LET ctr == overlays[i].centroid
        st == Get(Get(comp[i].dragStart).latlng)
    IN  /\ AxisAligned(st[2] - ctr[2], st[1] - ctr[1])
        /\ AxisAligned(latlng[2] - ctr[2], latlng[1] - ctr[1])

\* Listeners run in mount order; an exception thrown by one listener
\* leaves the later ones uncalled.  Ran(res, i): the listener of i was called.
Ran(res, i) == \A j \in 1..(i - 1) : ~res[j].threw

\* the overlay list after the onUpdate calls of the listeners that ran
RECURSIVE ApplyUpdates(_, _, _)
ApplyUpdates(prev, res, i) ==
  IF i > Len(res) THEN prev
  ELSE IF Ran(res, i) /\ IsSome(res[i].upd)
  THEN ApplyUpdates(updateOverlay(prev, overlays[i].id, Get(res[i].upd)), res, i + 1)
  ELSE ApplyUpdates(prev, res, i + 1)

AllInRange(res, B) == \A i \in 1..Len(res) : Ran(res, i) => InRange(res[i], B)

\* a move event delivered to every mounted component
Broadcast(res) ==
  /\ overlays' = ApplyUpdates(overlays, res, 1)
  /\ comp' = [i \in 1..Len(res) |-> IF Ran(res, i) THEN res[i].c ELSE comp[i]]
  /\ gesture' = [i \in 1..Len(res) |->
                   IF Ran(res, i) /\ ~res[i].threw THEN res[i].g ELSE gesture[i]]
  /\ UNCHANGED <<selectedOverlayId, editModeId, mapDragging, mapClasses,
                 orphanTimers, lastPanBy, searchVars>>

----------------------------------------------------------------------------
(* Boundary data: data/stateLoader.js *)

\* the boundary sources, in the order loadAllStates calls their loaders
Sources == <<"US", "IN", "PK">>
SourceSet == {Sources[k] : k \in 1..Len(Sources)}

\* STATE_AREAS, the entries of the names below in the order the object
\* literal lists them; Punjab is listed for India and again for Pakistan
STATE_AREAS ==
  << <<"Texas", 695662>>, <<"Punjab", 50362>>, <<"Punjab", 205344>>,
     <<"Sindh", 140914>> >>

\* STATE_AREAS[name] read by the first entry of the name
firstStateArea(name) ==
  LET at == {k \in 1..Len(STATE_AREAS) : STATE_AREAS[k][1] = name}
  IN  IF at = {} THEN None
      ELSE Some(STATE_AREAS[CHOOSE k \in at : \A j \in at : k <= j][2])

\* STATE_AREAS[name]: of the entries an object literal lists for one key
\* the last one stays
stateArea(name) ==
  LET at == {k \in 1..Len(STATE_AREAS) : STATE_AREAS[k][1] = name}
  IN  IF at = {} THEN None
      ELSE Some(STATE_AREAS[CHOOSE k \in at : \A j \in at : k >= j][2])

\* value || fallback for a number or undefined
OrElse(value, fallback) ==
  IF value = None \/ Get(value) = 0 THEN fallback ELSE Get(value)

\* name.substring(0, 2).toUpperCase()
FirstTwoUpper(name) ==
  CASE name = "Texas" -> "TE"
    [] name = "Puerto Rico" -> "PU"
    [] name = "Punjab" -> "PU"
    [] name = "Chandigarh" -> "CH"
    [] name = "Sindh" -> "SI"

\* the features of a good response of each source: the name its properties
\* carry (None where they carry none) and its geometry
RawFeatures(src) ==
  LET polygon == [type |-> "Polygon", coordinates |-> Node(<<TexasRing>>)]
      multi == [type |-> "MultiPolygon",
                coordinates |-> Node(<<Node(<<AlaskaRing>>)>>)]
  IN  CASE src = "US" -> << [name |-> Some("Texas"), geometry |-> polygon],
                            [name |-> Some("Puerto Rico"), geometry |-> multi] >>
        [] src = "IN" -> << [name |-> Some("Punjab"), geometry |-> polygon],
                            [name |-> None, geometry |-> polygon],
                            [name |-> Some("Chandigarh"), geometry |-> multi] >>
        [] src = "PK" -> << [name |-> Some("Sindh"), geometry |-> multi],
                            [name |-> Some("Punjab"), geometry |-> polygon] >>

\* the feature a loader makes of a raw one: { ...feature, properties: {...} },
\* the properties written beside the geometry as the overlay registry reads
\* them.  The loader of the US source reads name.substring of every feature;
\* the features of its response all carry a name.
LoadedFeature(src, feature) ==
  LET area(name) == OrElse(stateArea(name), IF src = "US" THEN 100000 ELSE 50000)
      \* US_STATE_CODES[name]
      usStateCode(name) == IF name = "Texas" THEN Some("TX") ELSE None
  IN  IF feature.name = None
      THEN [name |-> None, code |-> "XX", country |-> src,
            area_km2 |-> 50000, geometry |-> feature.geometry]
      ELSE LET name == Get(feature.name) IN
           [name |-> feature.name,
            code |-> IF src = "US" /\ usStateCode(name) # None
                     THEN Get(usStateCode(name))
                     ELSE FirstTwoUpper(name),
            country |-> src,
            area_km2 |-> area(name),
            geometry |-> feature.geometry]

\* the collection a loader caches and returns after a good response; the
\* names that pass the filter are strings
LoadedCollection(src) ==
  LET mapped == [k \in 1..Len(RawFeatures(src)) |->
                   LoadedFeature(src, RawFeatures(src)[k])]
      \* .filter(f => f.properties.name)
      HasName(f) == f.name # None
      named == SelectSeq(mapped, HasName)
  IN  [type |-> "FeatureCollection",
       features |-> [k \in 1..Len(named) |-> [named[k] EXCEPT !.name = Get(@)]]]

\* what a loader returns after a failed fetch or parse
EmptyCollection == [type |-> "FeatureCollection", features |-> <<>>]

----------------------------------------------------------------------------
(* Search: useStateSearch and SearchBox *)

\* the instances of useStateSearch the model mounts one after the other
MaxMounts == 2

\* the texts typed into the search box
Queries == {"", "p", "punjab", "zz"}

\* a.localeCompare(b) orders the names by these ranks
NameRank(name) ==
  CASE name = "Chandigarh" -> 1
    [] name = "Puerto Rico" -> 2
    [] name = "Punjab" -> 3
    [] name = "Sindh" -> 4
    [] name = "Texas" -> 5

\* state.searchKey.includes(query): the key is the lower-cased name, code and
\* country words ('usa united states', 'india', 'pakistan')
KeyIncludes(f, query) ==
  CASE query = "p" -> f.name \in {"Punjab", "Puerto Rico"} \/ f.country = "PK"
    [] query = "punjab" -> f.name = "Punjab"
    [] query = "zz" -> FALSE
    [] query = "" -> TRUE

\* the comparators of the two sorts: negative when a goes before b
ByName(a, b, query) == NameRank(a.name) - NameRank(b.name)
ByRelevance(a, b, query) ==
  LET \* name.toLowerCase() === query
      NameIs(f, q) == q = "punjab" /\ f.name = "Punjab"
      \* name.toLowerCase().startsWith(query)
      NameStartsWith(f, q) ==
        \/ q = "p" /\ f.name \in {"Punjab", "Puerto Rico"}
        \/ q = "punjab" /\ f.name = "Punjab"
  IN
  IF NameIs(a, query) /\ ~NameIs(b, query) THEN -1
  ELSE IF NameIs(b, query) /\ ~NameIs(a, query) THEN 1
  ELSE IF NameStartsWith(a, query) /\ ~NameStartsWith(b, query) THEN -1
  ELSE IF NameStartsWith(b, query) /\ ~NameStartsWith(a, query) THEN 1
  ELSE ByName(a, b, query)

\* Array.prototype.sort with a comparator that is a total preorder: the sort
\* is stable, so entry j stands before entry k when it compares lower, or
\* equal and stood before it
Sort(s, byRelevance, query) ==
  LET cmp(a, b) == IF byRelevance THEN ByRelevance(a, b, query)
                                  ELSE ByName(a, b, query)
      before(j, k) ==
        cmp(s[j], s[k]) < 0 \/ (cmp(s[j], s[k]) = 0 /\ j < k)
      place(k) == 1 + Cardinality({j \in 1..Len(s) : before(j, k)})
  IN  [r \in 1..Len(s) |-> s[CHOOSE k \in 1..Len(s) : place(k) = r]]

\* useStateSearch: the searchResults memo
searchResults(searchQuery, allStates) ==
  IF searchQuery = "" \/ Len(allStates) = 0 THEN <<>>
  ELSE LET matching(f) == KeyIncludes(f, searchQuery)
           sorted == Sort(SelectSeq(allStates, matching), TRUE, searchQuery)
       IN  SubSeq(sorted, 1, Min(10, Len(sorted)))

\* one instance of useStateSearch after its first render and its load
\* effect's first step: loads[src] is None while the loader's promise is
\* pending and Some(collection) once it is resolved
NewHook(loads) ==
  [mounted |-> TRUE, isLoading |-> TRUE, allStates |-> <<>>, searchQuery |-> "",
   loads |-> loads, settled |-> FALSE]

\* SearchBox after its first render
InitBox == [isOpen |-> FALSE, highlightedIndex |-> 0]

InitSearch ==
  /\ cached = [src \in SourceSet |-> None]
  /\ fetchCount = [src \in SourceSet |-> 0]
  /\ hooks = <<>>
  /\ box = InitBox

----------------------------------------------------------------------------
(* Operations *)

Init ==
  /\ overlays = <<>>
  /\ selectedOverlayId = None
  /\ editModeId = None
  /\ comp = <<>>
  /\ mapDragging = TRUE
  /\ mapClasses = {}
  /\ orphanTimers = {}
  /\ lastPanBy = None
  /\ gesture = <<>>
  /\ InitSearch

\* handleSelectOverlay that turns edit mode on and never off
handleSelectOverlayEditOn(id, toggleEditMode) ==
  /\ selectedOverlayId' = id
  /\ editModeId' = IF toggleEditMode THEN id ELSE editModeId

\* App.handleSelectOverlay(id, toggleEditMode)
handleSelectOverlay(id, toggleEditMode) ==
  /\ selectedOverlayId' = id
  /\ editModeId' = IF toggleEditMode
                   THEN (IF editModeId = id THEN None ELSE id)
                   ELSE editModeId

\* App.handleSelectState -> addOverlay(stateFeature); now is Date.now().
\* A DraggableOverlay is mounted for the new overlay.
handleSelectState(stateFeature, now) ==
  /\ overlays' = Append(overlays, NewOverlay(stateFeature, now))
  /\ selectedOverlayId' = <<stateFeature.code, now>>
  /\ comp' = Append(comp, InitRefs)
  /\ gesture' = Append(gesture, NoGestureRecord)
  /\ UNCHANGED <<editModeId, mapDragging, mapClasses, orphanTimers, lastPanBy>>

\* a feature is picked, the search box left aside
AddOverlay(stateFeature, now) ==
  /\ handleSelectState(stateFeature, now)
  /\ UNCHANGED searchVars

\* the timers left running by the components of the overlays with this id:
\* unmounting removes the listeners and clears no interval
LeftRunning(id) ==
  {Get(comp[i].edgePanInterval) :
     i \in {j \in 1..Len(overlays) :
              overlays[j].id = id /\ IsSome(comp[j].edgePanInterval)}}

\* App.handleRemoveOverlay(id), the remove button of overlay i
RemoveOverlay(i) ==
  LET id == overlays[i].id IN
  /\ editModeId' = IF editModeId = id THEN None ELSE editModeId
  /\ overlays' = removeOverlay(overlays, id)
  /\ selectedOverlayId' = IF selectedOverlayId = id THEN None ELSE selectedOverlayId
  /\ comp' = KeepOthers(comp, overlays, id)
  /\ gesture' = KeepOthers(gesture, overlays, id)
  /\ orphanTimers' = orphanTimers \cup LeftRunning(id)
  /\ UNCHANGED <<mapDragging, mapClasses, lastPanBy, searchVars>>

\* App.handleClearAll, the Clear All button (shown when the list is not empty)
ClearAll ==
  /\ Len(overlays) > 0
  /\ editModeId' = None
  /\ overlays' = <<>>
  /\ selectedOverlayId' = None
  /\ comp' = <<>>
  /\ gesture' = <<>>
  /\ orphanTimers' = orphanTimers \cup
       {Get(comp[i].edgePanInterval) :
          i \in {j \in 1..Len(overlays) : IsSome(comp[j].edgePanInterval)}}
  /\ UNCHANGED <<mapDragging, mapClasses, lastPanBy, searchVars>>

\* Math.round(mercatorScale * 100)
scalePercent(o) ==
  (200 * o.mercatorScale[1] + o.mercatorScale[2]) \div (2 * o.mercatorScale[2])

\* Math.round(rotation * 180 / Math.PI), rotation in quarter turns
rotationDeg(o) == 90 * o.rotation

\* a Reset button shown for a moved overlay too
hasTransformsOrMoved(o) ==
  scalePercent(o) # 100 \/ rotationDeg(o) # 0 \/ o.offset # <<0, 0>>

\* OverlayList: hasTransforms, which shows the Reset button
hasTransforms(o) == scalePercent(o) # 100 \/ rotationDeg(o) # 0

\* a call updateOverlay(id, updates) for the id of overlay i
UpdateOverlay(i, updates) ==
  /\ overlays' = updateOverlay(overlays, overlays[i].id, updates)
  /\ UNCHANGED <<selectedOverlayId, editModeId, comp, mapDragging, mapClasses,
                 orphanTimers, lastPanBy, searchVars, gesture>>

\* updateGeometry(newOffset, newRotation) of the component of overlay i:
\* onUpdate(overlay.id, ...)
UpdateGeometry(i, newOffset, newRotation) ==
  UpdateOverlay(i, GeometryUpdate(overlays[i], newOffset, newRotation))

\* the Reset button of overlay i: resetOverlay(id)
ResetOverlay(i) ==
  /\ hasTransforms(overlays[i])
  /\ overlays' = resetOverlay(overlays, overlays[i].id)
  /\ gesture' = [j \in 1..Len(gesture) |->
                   IF overlays[j].id = overlays[i].id
                   THEN [gesture[j] EXCEPT !.lastGeo = None, !.lastAngle = None]
                   ELSE gesture[j]]
  /\ UNCHANGED <<selectedOverlayId, editModeId, comp, mapDragging, mapClasses,
                 orphanTimers, lastPanBy, searchVars>>

\* a click on the list entry of overlay i: onSelectOverlay(id)
SelectOverlay(i) ==
  /\ handleSelectOverlay(overlays[i].id, FALSE)
  /\ UNCHANGED <<overlays, comp, mapDragging, mapClasses, orphanTimers, lastPanBy, searchVars,
                 gesture>>

\* the edit button of overlay i: onToggleEditMode(id)
ToggleEditMode(i) ==
  /\ editModeId' = IF editModeId = overlays[i].id THEN None ELSE overlays[i].id
  /\ UNCHANGED <<overlays, selectedOverlayId, comp, mapDragging, mapClasses,
                 orphanTimers, lastPanBy, searchVars, gesture>>

\* the layer's mousedown handler of overlay i
MouseDown(i, button, latlng, shiftKey) ==
  IF button # 0 THEN UNCHANGED vars
  ELSE
    /\ handleSelectOverlay(overlays[i].id, FALSE)
    /\ IF isEditMode(i)
       THEN /\ comp' = [comp EXCEPT ![i] = startDrag(@, overlays[i], latlng, shiftKey)]
            /\ gesture' = [gesture EXCEPT ![i] =
                 StartRecord(IF shiftKey THEN "rotate" ELSE "drag", overlays[i],
                             Some(latlng),
                             IF shiftKey
                             THEN Some(calculateAngle(overlays[i].centroid, latlng))
                             ELSE None)]
            /\ mapDragging' = FALSE
            /\ mapClasses' = mapClasses \cup
                 {IF shiftKey THEN "rotating-overlay" ELSE "dragging-overlay"}
       ELSE UNCHANGED <<comp, gesture, mapDragging, mapClasses>>
    /\ UNCHANGED <<overlays, orphanTimers, lastPanBy, searchVars>>

\* the layer's dblclick handler of overlay i
DblClick(i) ==
  /\ handleSelectOverlay(overlays[i].id, TRUE)
  /\ UNCHANGED <<overlays, comp, mapDragging, mapClasses, orphanTimers, lastPanBy, searchVars,
                 gesture>>

\* the map's mousemove event, handled by every mounted component
MouseMoveResults(latlng, client) ==
  [i \in 1..Len(overlays) |->
     MouseMoveOne(overlays[i], comp[i], gesture[i], latlng, client)]

MouseMove(latlng, client) == Broadcast(MouseMoveResults(latlng, client))

\* cleanup() in every component that is dragging or rotating
Release ==
  /\ comp' = [i \in 1..Len(comp) |-> IF Gesturing(i) THEN cleanup(comp[i]) ELSE comp[i]]
  /\ gesture' = [i \in 1..Len(comp) |->
                   IF Gesturing(i) THEN NoGestureRecord ELSE gesture[i]]
  /\ IF \E i \in 1..Len(comp) : Gesturing(i)
     THEN /\ mapDragging' = TRUE
          /\ mapClasses' = mapClasses \ {"dragging-overlay", "rotating-overlay"}
     ELSE UNCHANGED <<mapDragging, mapClasses>>
  /\ UNCHANGED <<overlays, selectedOverlayId, editModeId, orphanTimers, lastPanBy, searchVars>>

\* the map's and the document's mouseup handlers
MouseUp == Release

\* handleTouchStart on the element of overlay i; latlng is what
\* map.containerPointToLatLng gives for the first touch
TouchStart(i, touches, latlng) ==
  IF Len(touches) = 1
  THEN IF comp[i].lastTapAge < DOUBLE_TAP_MS
       THEN /\ handleSelectOverlay(overlays[i].id, TRUE)
            /\ comp' = [comp EXCEPT ![i].lastTapAge = DOUBLE_TAP_MS]
            /\ UNCHANGED <<overlays, mapDragging, mapClasses, orphanTimers, lastPanBy, searchVars,
                           gesture>>
       ELSE IF isEditMode(i) /\ isSelected(i)
       THEN /\ comp' = [comp EXCEPT ![i] =
                 startDrag([@ EXCEPT !.lastTapAge = 0], overlays[i], latlng, FALSE)]
            /\ gesture' = [gesture EXCEPT ![i] =
                 StartRecord("drag", overlays[i], Some(latlng), None)]
            /\ mapDragging' = FALSE
            /\ mapClasses' = mapClasses \cup {"dragging-overlay"}
            /\ UNCHANGED <<overlays, selectedOverlayId, editModeId, orphanTimers,
                           lastPanBy, searchVars>>
       ELSE /\ comp' = [comp EXCEPT ![i].lastTapAge = 0]
            /\ UNCHANGED <<overlays, selectedOverlayId, editModeId, mapDragging,
                           mapClasses, orphanTimers, lastPanBy, searchVars, gesture>>
  ELSE IF Len(touches) = 2 /\ isEditMode(i) /\ isSelected(i)
  THEN /\ comp' = [comp EXCEPT ![i] = startTouchRotate(@, overlays[i], touches)]
       /\ gesture' = [gesture EXCEPT ![i] =
            StartRecord("rotate", overlays[i], None,
                        Some(getTouchAngle(touches[1], touches[2])))]
       /\ mapDragging' = FALSE
       /\ mapClasses' = mapClasses \cup {"rotating-overlay"}
       /\ UNCHANGED <<overlays, selectedOverlayId, editModeId, orphanTimers, lastPanBy, searchVars>>
  ELSE UNCHANGED vars

\* the document's touchmove event, handled by every mounted component
TouchMoveResults(touches, latlng) ==
  [i \in 1..Len(overlays) |->
     TouchMoveOne(overlays[i], comp[i], gesture[i], touches, latlng)]

TouchMove(touches, latlng) == Broadcast(TouchMoveResults(touches, latlng))

\* the document's touchend and touchcancel handlers
TouchEnd == Release

\* a firing that also ends the gesture of the component whose timer fired
EdgePanTickEndsGesture ==
  \E i \in 1..Len(comp) :
    /\ IsSome(comp[i].edgePanInterval)
    /\ lastPanBy' = Some(Get(comp[i].edgePanInterval))
    /\ UNCHANGED searchVars
    /\ comp' = [comp EXCEPT ![i] = cleanup(comp[i])]
    /\ UNCHANGED <<overlays, selectedOverlayId, editModeId, mapDragging,
                   mapClasses, orphanTimers, gesture>>

\* one firing of a running edge-pan interval: map.panBy([panX, panY])
EdgePanTick ==
  \E pan \in orphanTimers \cup
             {Get(comp[i].edgePanInterval) :
                i \in {j \in 1..Len(comp) : IsSome(comp[j].edgePanInterval)}} :
    /\ lastPanBy' = Some(pan)
    /\ UNCHANGED searchVars
    /\ UNCHANGED <<overlays, selectedOverlayId, editModeId, comp, mapDragging,
                   mapClasses, orphanTimers, gesture>>

\* DOUBLE_TAP_MS or more pass without a touch
TimePasses ==
  /\ comp' = [i \in 1..Len(comp) |-> [comp[i] EXCEPT !.lastTapAge = DOUBLE_TAP_MS]]
  /\ UNCHANGED <<overlays, selectedOverlayId, editModeId, mapDragging, mapClasses,
                 orphanTimers, lastPanBy, searchVars, gesture>>

Overlay == 1..Len(overlays)

\* Every overlay is created at a clock reading no live overlay of the same
\* code was created at, so the ids of the live overlays differ.
FreshStamps(f) == {t \in Stamps : \A i \in Overlay : overlays[i].id # <<f.code, t>>}

\* a shift press takes the angle of the centroid-to-pointer vector
PressExact(i, latlng, shiftKey) ==
  shiftKey => AxisAligned(latlng[2] - overlays[i].centroid[2],
                          latlng[1] - overlays[i].centroid[1])

\* The steps of the program on the inputs B, the Reset button apart.  The
\* guards written here bound the inputs (list length, number ranges, exact
\* angles); the guards of the code are in the operations.
Steps(B) ==
  \/ \E f \in B.features : \E now \in FreshStamps(f) :
       /\ Len(overlays) < B.maxOverlays
       /\ AddOverlay(f, now)
  \/ \E i \in Overlay : RemoveOverlay(i)
  \/ ClearAll
  \/ \E i \in Overlay : SelectOverlay(i)
  \/ \E i \in Overlay : ToggleEditMode(i)
  \/ \E i \in Overlay : \E button \in B.buttons : \E latlng \in B.geos :
       \E shiftKey \in BOOLEAN :
         /\ PressExact(i, latlng, shiftKey)
         /\ MouseDown(i, button, latlng, shiftKey)
  \/ \E i \in Overlay : DblClick(i)
  \/ \E latlng \in B.geos : \E client \in B.clients :
       /\ \A i \in Overlay : MouseAnglesExact(i, latlng)
       /\ AllInRange(MouseMoveResults(latlng, client), B)
       /\ MouseMove(latlng, client)
  \/ MouseUp
  \/ \E i \in Overlay : \E touches \in B.touchLists : \E latlng \in B.geos :
       TouchStart(i, touches, latlng)
  \/ \E touches \in B.touchLists : \E latlng \in B.geos :
       /\ AllInRange(TouchMoveResults(touches, latlng), B)
       /\ TouchMove(touches, latlng)
  \/ TouchEnd
  \/ EdgePanTick
  \/ TimePasses

\* one overlay at a time, with drags along both axes and rotations
Next == Steps(Inputs) \/ \E i \in Overlay : ResetOverlay(i)
Spec == Init /\ [][Next]_vars

\* two overlays at a time; their transforms stay the identity, so that
\* hasTransforms is false and no Reset button is shown
NextTwo == Steps(InputsTwo)
SpecTwo == Init /\ [][NextTwo]_vars

\* one overlay, with the pointer moving between two margins
NextEdge == Steps(InputsEdge)
SpecEdge == Init /\ [][NextEdge]_vars

\* the calls of the overlay registry alone, on every feature and with clock
\* readings that may repeat
NextRegistry ==
  \/ \E f \in RegistryFeatures : \E now \in RegistryStamps :
       /\ Len(overlays) < MaxOverlays
       /\ AddOverlay(f, now)
  \/ \E i \in Overlay : \E updates \in Patches : UpdateOverlay(i, updates)
  \/ \E i \in Overlay :
       \* the latitudes of the move are in the cosine table
       /\ overlays[i].originalCentroid = <<0, 60>>
       /\ UpdateGeometry(i, <<30, 60>>, 1)
  \/ \E i \in Overlay : RemoveOverlay(i)
  \/ ClearAll
  \/ \E i \in Overlay : ResetOverlay(i)
  \/ \E i \in Overlay : SelectOverlay(i)
SpecRegistry == Init /\ [][NextRegistry]_vars

\* the handlers of App.jsx that write the selection and the edit mode: the
\* search result picked, the buttons of the sidebar and the double click on
\* an overlay, with clock readings that may repeat
NextApp ==
  \/ \E f \in Features \cup RegistryFeatures : \E now \in RegistryStamps :
       /\ Len(overlays) < MaxOverlays
       /\ AddOverlay(f, now)
  \/ \E i \in Overlay : RemoveOverlay(i)
  \/ ClearAll
  \/ \E i \in Overlay : SelectOverlay(i)
  \/ \E i \in Overlay : ToggleEditMode(i)
  \/ \E i \in Overlay : DblClick(i)
SpecApp == Init /\ [][NextApp]_vars

\* The functions of utils/geoUtils.js applied to the geometry of one overlay:
\* the state after addOverlay of a feature, then translations by the deltas,
\* rotations about the centroid by the angles, and the scale factor taken at
\* the centroid's latitude.
Deltas == {<<30, 0>>, <<-30, 0>>, <<0, 30>>, <<0, -30>>}
Angles == {1, -1}

InitGeo ==
  \E f \in Features :
    /\ overlays = <<NewOverlay(f, 1)>>
    /\ selectedOverlayId = <<f.code, 1>>
    /\ editModeId = None
    /\ comp = <<InitRefs>>
    /\ mapDragging = TRUE
    /\ mapClasses = {}
    /\ orphanTimers = {}
    /\ lastPanBy = None
    /\ gesture = <<NoGestureRecord>>
    /\ InitSearch

Translate(delta) ==
  LET o == overlays[1] IN
  /\ Abs(o.offset[1] + delta[1]) <= MaxOffsetLng
  /\ Abs(o.offset[2] + delta[2]) <= MaxOffsetLat
  /\ UpdateOverlay(1,
       [geometry |-> [o.geometry EXCEPT !.coordinates =
                        translateCoordinates(@, delta[1], delta[2])],
        centroid |-> <<o.centroid[1] + delta[1], o.centroid[2] + delta[2]>>,
        offset |-> <<o.offset[1] + delta[1], o.offset[2] + delta[2]>>])

Rotate(angleRad) ==
  LET o == overlays[1] IN
  /\ Abs(o.rotation + angleRad) <= MaxRotation
  /\ UpdateOverlay(1,
       [geometry |-> [o.geometry EXCEPT !.coordinates =
                        rotateCoordinates(@, o.centroid[1], o.centroid[2], angleRad)],
        rotation |-> o.rotation + angleRad])

Rescale ==
  LET o == overlays[1] IN
  UpdateOverlay(1,
    [mercatorScale |-> FracDiv(getMercatorScaleFactor(o.centroid[2]),
                               getMercatorScaleFactor(o.originalCentroid[2]))])

NextGeo ==
  \/ \E delta \in Deltas : Translate(delta)
  \/ \E angleRad \in Angles : Rotate(angleRad)
  \/ Rescale
SpecGeo == InitGeo /\ [][NextGeo]_vars

\* the sidebar entry of that overlay: the transforms above and the Reset
\* button where the entry shows it
NextSidebar == NextGeo \/ \E i \in Overlay : ResetOverlay(i)
SpecSidebar == InitGeo /\ [][NextSidebar]_vars

----------------------------------------------------------------------------
(* Operations of the search: data/stateLoader.js and SearchBox *)

Hook == 1..Len(hooks)

\* the results the mounted search box is given
Results(h) == searchResults(hooks[h].searchQuery, hooks[h].allStates)

\* the results effect of SearchBox, run after a render with new results or
\* a new query
ResultsEffect(results, searchQuery) ==
  [isOpen |-> Len(results) > 0 /\ searchQuery # "", highlightedIndex |-> 0]

\* App is mounted: a new useStateSearch renders and its effect calls
\* loadAllStates(), which calls the three loaders; a loader whose cache is
\* set returns it, the others call fetch
Mount ==
  /\ \A h \in Hook : ~hooks[h].mounted
  /\ hooks' = Append(hooks, NewHook(cached))
  /\ fetchCount' = [src \in SourceSet |->
                      IF cached[src] = None THEN fetchCount[src] + 1
                      ELSE fetchCount[src]]
  /\ box' = InitBox
  /\ UNCHANGED <<cached, mapVars>>

\* a loader that writes its cache on a failure too
LoaderSettlesCachingFailure(h, src, ok) ==
  LET collection == IF ok THEN LoadedCollection(src) ELSE EmptyCollection IN
  /\ hooks[h].loads[src] = None
  /\ cached' = [cached EXCEPT ![src] = Some(collection)]
  /\ hooks' = [hooks EXCEPT ![h].loads[src] = Some(collection)]
  /\ UNCHANGED <<fetchCount, box, mapVars>>

\* the fetch of a loader called by instance h ends: with a response the
\* loader can read (ok), or with a rejected fetch or an exception in the
\* parsing, which the loader catches
LoaderSettles(h, src, ok) ==
  /\ hooks[h].loads[src] = None
  /\ IF ok
     THEN /\ cached' = [cached EXCEPT ![src] = Some(LoadedCollection(src))]
          /\ hooks' = [hooks EXCEPT ![h].loads[src] = Some(LoadedCollection(src))]
     ELSE /\ cached' = cached
          /\ hooks' = [hooks EXCEPT ![h].loads[src] = Some(EmptyCollection)]
  /\ UNCHANGED <<fetchCount, box, mapVars>>

\* [...usStates.features, ...indiaStates.features, ...pakistanProvinces.features]
RECURSIVE AllFeatures(_, _)
AllFeatures(loads, k) ==
  IF k > Len(Sources) THEN <<>>
  ELSE Get(loads[Sources[k]]).features \o AllFeatures(loads, k + 1)

\* a load whose result is set after the unmount as well
LoadDoneUnguarded(h) ==
  LET states == Sort(AllFeatures(hooks[h].loads, 1), FALSE, "") IN
  /\ ~hooks[h].settled
  /\ \A src \in SourceSet : hooks[h].loads[src] # None
  /\ hooks' = [hooks EXCEPT ![h].settled = TRUE, ![h].allStates = states,
                            ![h].isLoading = FALSE]
  /\ box' = IF hooks[h].mounted
            THEN ResultsEffect(searchResults(hooks[h].searchQuery, states),
                               hooks[h].searchQuery)
            ELSE box
  /\ UNCHANGED <<cached, fetchCount, mapVars>>

\* Promise.all of instance h is resolved and loadStates goes on: the state
\* list and isLoading are set if the instance is still mounted, and the
\* search box, given a new result list, runs its results effect
LoadDone(h) ==
  LET states == Sort(AllFeatures(hooks[h].loads, 1), FALSE, "") IN
  /\ ~hooks[h].settled
  /\ \A src \in SourceSet : hooks[h].loads[src] # None
  /\ IF hooks[h].mounted
     THEN /\ hooks' = [hooks EXCEPT ![h].settled = TRUE, ![h].allStates = states,
                                    ![h].isLoading = FALSE]
          /\ box' = ResultsEffect(searchResults(hooks[h].searchQuery, states),
                                  hooks[h].searchQuery)
     ELSE /\ hooks' = [hooks EXCEPT ![h].settled = TRUE]
          /\ box' = box
  /\ UNCHANGED <<cached, fetchCount, mapVars>>

\* App is unmounted: the cleanup of the load effect sets mounted to false
Unmount(h) ==
  /\ hooks[h].mounted
  /\ hooks' = [hooks EXCEPT ![h].mounted = FALSE]
  /\ box' = InitBox
  /\ UNCHANGED <<cached, fetchCount, mapVars>>

\* setSearchQuery(query) and the render and results effect that follow
SetSearchQuery(h, query) ==
  /\ hooks' = [hooks EXCEPT ![h].searchQuery = query]
  /\ box' = ResultsEffect(searchResults(query, hooks[h].allStates), query)
  /\ UNCHANGED <<cached, fetchCount>>

\* the input's onChange; the input is disabled while isLoading
InputChange(h, query) ==
  /\ hooks[h].mounted /\ ~hooks[h].isLoading
  /\ query # hooks[h].searchQuery
  /\ SetSearchQuery(h, query)
  /\ UNCHANGED mapVars

\* the clear button, shown while the query is not empty
ClearButton(h) ==
  /\ hooks[h].mounted
  /\ hooks[h].searchQuery # ""
  /\ SetSearchQuery(h, "")
  /\ UNCHANGED mapVars

\* the input's onFocus
Focus(h) ==
  /\ hooks[h].mounted /\ ~hooks[h].isLoading
  /\ box' = IF Len(Results(h)) > 0 THEN [box EXCEPT !.isOpen = TRUE] ELSE box
  /\ UNCHANGED <<cached, fetchCount, hooks, mapVars>>

\* SearchBox.handleSelectState(state): onSelectState(state) is addOverlay,
\* now is Date.now(); then the query is cleared and the list closed
SelectState(h, state, now) ==
  /\ handleSelectState(state, now)
  /\ SetSearchQuery(h, "")

\* a handleKeyDown whose ArrowDown steps past the last result
KeyDownUnbounded(h, key, now) ==
  /\ hooks[h].mounted /\ ~hooks[h].isLoading
  /\ box.isOpen
  /\ key = "ArrowDown"
  /\ box' = [box EXCEPT !.highlightedIndex = @ + 1]
  /\ UNCHANGED <<cached, fetchCount, hooks, mapVars>>

\* handleKeyDown, which returns at once while the list is closed; the input
\* is disabled while isLoading.  searchResults[highlightedIndex] is an entry
\* when the index, which counts from 0, is below the length.
KeyDown(h, key, now) ==
  /\ hooks[h].mounted /\ ~hooks[h].isLoading
  /\ box.isOpen
  /\ CASE key = "ArrowDown" ->
             /\ box' = [box EXCEPT !.highlightedIndex =
                          IF @ < Len(Results(h)) - 1 THEN @ + 1 ELSE @]
             /\ UNCHANGED <<cached, fetchCount, hooks, mapVars>>
       [] key = "ArrowUp" ->
             /\ box' = [box EXCEPT !.highlightedIndex = IF @ > 0 THEN @ - 1 ELSE @]
             /\ UNCHANGED <<cached, fetchCount, hooks, mapVars>>
       [] key = "Enter" ->
             IF box.highlightedIndex + 1 \in 1..Len(Results(h))
             THEN SelectState(h, Results(h)[box.highlightedIndex + 1], now)
             ELSE UNCHANGED vars
       [] key = "Escape" ->
             /\ box' = [box EXCEPT !.isOpen = FALSE]
             /\ UNCHANGED <<cached, fetchCount, hooks, mapVars>>

\* onMouseEnter of the entry at index, rendered while the list is open
MouseEnter(h, index) ==
  /\ hooks[h].mounted
  /\ box.isOpen
  /\ index + 1 \in 1..Len(Results(h))
  /\ box' = [box EXCEPT !.highlightedIndex = index]
  /\ UNCHANGED <<cached, fetchCount, hooks, mapVars>>

\* onClick of the entry at index
ClickResult(h, index, now) ==
  /\ hooks[h].mounted
  /\ box.isOpen
  /\ index + 1 \in 1..Len(Results(h))
  /\ SelectState(h, Results(h)[index + 1], now)

\* the loading of the boundary data by instances mounted one after the other
NextLoad ==
  \/ Len(hooks) < MaxMounts /\ Mount
  \/ \E h \in Hook : \E src \in SourceSet : \E ok \in BOOLEAN : LoaderSettles(h, src, ok)
  \/ \E h \in Hook : LoadDone(h)
  \/ \E h \in Hook : Unmount(h)
SpecLoad == Init /\ [][NextLoad]_vars

\* every fetch ends, with a response or a failure, and a resolved promise
\* runs its continuation
SpecLoadFair ==
  /\ SpecLoad
  /\ WF_vars(\E h \in Hook :
               LoadDone(h) \/ \E src \in SourceSet : \E ok \in BOOLEAN :
                                LoaderSettles(h, src, ok))

\* the search box of one instance, from its mounting on: the load, then
\* queries, keys, the pointer over the list and the picking of results
NextSearch ==
  \/ Len(hooks) < 1 /\ Mount
  \/ \E h \in Hook : \E src \in SourceSet : \E ok \in BOOLEAN : LoaderSettles(h, src, ok)
  \/ \E h \in Hook : LoadDone(h)
  \/ \E h \in Hook : \E query \in Queries : InputChange(h, query)
  \/ \E h \in Hook : ClearButton(h)
  \/ \E h \in Hook : Focus(h)
  \/ \E h \in Hook : \E key \in {"ArrowDown", "ArrowUp", "Enter", "Escape"} :
       \E now \in Stamps :
         /\ key = "Enter" => Len(overlays) < MaxOverlays
         /\ KeyDown(h, key, now)
  \/ \E h \in Hook : \E index \in 0..9 : MouseEnter(h, index)
  \/ \E h \in Hook : \E index \in 0..9 : \E now \in Stamps :
       /\ Len(overlays) < MaxOverlays
       /\ ClickResult(h, index, now)
  \/ ClearAll
SpecSearch == Init /\ [][NextSearch]_vars

----------------------------------------------------------------------------
(* Properties *)

SomeGesture == \E i \in Overlay : Gesturing(i)

\* an edge-pan interval is running, of a mounted or of an unmounted component
TimerRunning ==
  orphanTimers # {} \/ \E i \in Overlay : IsSome(comp[i].edgePanInterval)

\* what cleanup() leaves: no gesture, map panning on, no interval
Idle == ~SomeGesture /\ mapDragging /\ ~TimerRunning

\* C1: at any time at most one overlay is being dragged or rotated.
AtMostOneGesture == \A i, j \in Overlay : (Gesturing(i) /\ Gesturing(j)) => i = j

\* a press, a touch start or a move, the first two on overlay b
PressOrMoveOn(b) ==
  \/ \E latlng \in InputsTwo.geos : \E shiftKey \in BOOLEAN :
       PressExact(b, latlng, shiftKey) /\ MouseDown(b, 0, latlng, shiftKey)
  \/ \E touches \in InputsTwo.touchLists : \E latlng \in InputsTwo.geos :
       TouchStart(b, touches, latlng)
  \/ \E latlng \in InputsTwo.geos : \E client \in InputsTwo.clients :
       (\A i \in Overlay : MouseAnglesExact(i, latlng)) /\ MouseMove(latlng, client)
  \/ \E touches \in InputsTwo.touchLists : \E latlng \in InputsTwo.geos :
       TouchMove(touches, latlng)

\* C2: while overlay a is being dragged, a press, touch start or move on
\* another overlay b, which is in no gesture, leaves b's offset and rotation
\* as they were and starts no gesture of b.
OtherOverlayUntouched ==
  [][\A a, b \in Overlay :
       (a # b /\ comp[a].isDragging /\ ~Gesturing(b) /\ PressOrMoveOn(b))
         => /\ overlays'[b].offset = overlays[b].offset
            /\ overlays'[b].rotation = overlays[b].rotation
            /\ ~comp'[b].isDragging /\ ~comp'[b].isRotating]_vars

\* C3: removing the overlay that is being dragged or rotated, or clearing
\* the list while one is, ends the gesture in the same step: right after it
\* no gesture is active, map panning is on and no edge-pan interval runs.
RemovalEndsGesture ==
  [][(\/ \E i \in Overlay : Gesturing(i) /\ RemoveOverlay(i)
      \/ SomeGesture /\ ClearAll) => Idle']_vars

\* C4: an edge-pan interval runs only while some overlay is being dragged
\* or rotated.
TimerWithinGesture == TimerRunning => SomeGesture

\* C5: whenever no overlay is being dragged or rotated, map panning is
\* enabled.
PanningEnabledWithoutGesture == ~SomeGesture => mapDragging

\* C6: while an overlay is being dragged, after a move its offset is the
\* offset it had at the press plus the geographic displacement of the
\* pointer from the press to the latest move.
DragOffsetFromSnapshot ==
  \A i \in Overlay :
    (comp[i].isDragging /\ IsSome(gesture[i].lastGeo)) =>
      LET g == gesture[i]
      IN  overlays[i].offset =
            <<Get(g.startOffset)[1] + (Get(g.lastGeo)[1] - Get(g.startGeo)[1]),
              Get(g.startOffset)[2] + (Get(g.lastGeo)[2] - Get(g.startGeo)[2])>>

\* a second drag, starting from a moved overlay, has moved it again
DragMovedAgain ==
  \E i \in Overlay :
    /\ comp[i].isDragging /\ IsSome(gesture[i].lastGeo)
    /\ Get(gesture[i].startOffset) # <<0, 0>>
    /\ overlays[i].offset # Get(gesture[i].startOffset)

\* C7: while an overlay is being rotated, after a move its rotation is the
\* rotation it had at the start of the gesture plus the latest angle minus
\* the angle at the start, the angles as atan2 gives them.
RotationFromSnapshot ==
  \A i \in Overlay :
    (comp[i].isRotating /\ IsSome(gesture[i].lastAngle)) =>
      LET g == gesture[i]
      IN  overlays[i].rotation =
            Get(g.startRotation) + (Get(g.lastAngle) - Get(g.startAngle))

\* C8: every overlay's centroid is its original centroid plus its offset,
\* and its geometry is the original geometry translated by the offset and
\* then rotated about the centroid by the rotation.
GeometryIsDerived ==
  \A i \in Overlay :
    LET o == overlays[i]
    IN  /\ o.centroid = <<o.originalCentroid[1] + o.offset[1],
                          o.originalCentroid[2] + o.offset[2]>>
        /\ o.geometry.type = o.originalGeometry.type
        /\ o.geometry.coordinates =
             rotateCoordinates(
               translateCoordinates(o.originalGeometry.coordinates,
                                    o.offset[1], o.offset[2]),
               o.centroid[1], o.centroid[2], o.rotation)

\* an overlay that is both moved and rotated
MovedAndRotated ==
  \E i \in Overlay : overlays[i].offset # <<0, 0>> /\ overlays[i].rotation # 0

\* C9: every overlay's mercatorScale is the scale factor at its original
\* centroid latitude plus its latitude offset, divided by the scale factor at
\* its original centroid latitude; it is 1 when the latitude offset is 0.
ScaleFollowsLatitude ==
  \A i \in Overlay :
    LET o == overlays[i]
    IN  /\ o.mercatorScale =
             FracDiv(getMercatorScaleFactor(o.originalCentroid[2] + o.offset[2]),
                     getMercatorScaleFactor(o.originalCentroid[2]))
        /\ o.offset[2] = 0 => o.mercatorScale = One

\* an overlay created away from the equator, dragged beyond the clamp
ScaledBeyondClamp ==
  \E i \in Overlay :
    /\ overlays[i].originalCentroid[2] # 0
    /\ overlays[i].originalCentroid[2] + overlays[i].offset[2] > MAX_LAT
    /\ overlays[i].mercatorScale # One

\* C10: originalGeometry and originalCentroid of an overlay never change
\* after its creation.
OriginalsNeverChange ==
  [][\A i \in Overlay : \A j \in 1..Len(overlays') :
       overlays'[j].id = overlays[i].id =>
         /\ overlays'[j].originalGeometry = overlays[i].originalGeometry
         /\ overlays'[j].originalCentroid = overlays[i].originalCentroid]_vars

\* an overlay whose geometry has left its original geometry
GeometryLeftOriginal ==
  \E i \in Overlay :
    /\ overlays[i].geometry # overlays[i].originalGeometry
    /\ overlays[i].originalGeometry = FeatureNamed(overlays[i].name).geometry
    /\ overlays[i].originalCentroid # overlays[i].centroid

----------------------------------------------------------------------------
(* The overlay registry *)

\* C11: updateOverlay touches no field besides offset, geometry, centroid,
\* rotation and mercatorScale: over every step that keeps the list as long as
\* it was, each overlay keeps its id, name, code, scale, originalGeometry
\* and originalCentroid, whatever the partial fields of the call hold.
UpdateMergesOnlyTransformFields ==
  [][Len(overlays') = Len(overlays) =>
       \A i \in Overlay :
         /\ overlays'[i].id = overlays[i].id
         /\ overlays'[i].name = overlays[i].name
         /\ overlays'[i].code = overlays[i].code
         /\ overlays'[i].scale = overlays[i].scale
         /\ overlays'[i].originalGeometry = overlays[i].originalGeometry
         /\ overlays'[i].originalCentroid = overlays[i].originalCentroid]_vars

\* C17: calculateCentroid never returns NaN coordinates: no centroid that
\* addOverlay computed and stored is [NaN, NaN].
CentroidNeverNaN ==
  \A i \in Overlay : overlays[i].originalCentroid # NaNPoint

\* C18: addOverlay rejects a feature whose geometry has no points: every
\* overlay of the list has at least one point in its original geometry.
EmptyFeatureRejected ==
  \A i \in Overlay : CountPoints(overlays[i].originalGeometry.coordinates) > 0

\* C19: overlay ids are unique, two additions of the same code in the same
\* clock millisecond included.
IdsUnique ==
  \A i, j \in Overlay : overlays[i].id = overlays[j].id => i = j

\* C20: addOverlay on a feature with points appends exactly one overlay, with
\* offset [0, 0], rotation 0, mercatorScale 1, the feature's geometry as
\* geometry and originalGeometry, and one centroid as centroid and
\* originalCentroid; it leaves the overlays before it as they were and
\* selects the new one.
AddAppendsFreshOverlay ==
  [][Len(overlays') > Len(overlays)
       /\ CountPoints(overlays'[Len(overlays')].originalGeometry.coordinates) > 0
     => LET o == overlays'[Len(overlays')] IN
        /\ Len(overlays') = Len(overlays) + 1
        /\ SubSeq(overlays', 1, Len(overlays)) = overlays
        /\ o.offset = <<0, 0>>
        /\ o.rotation = 0
        /\ o.mercatorScale = One
        /\ \E f \in RegistryFeatures :
             /\ f.name = o.name
             /\ f.code = o.code
             /\ o.geometry = f.geometry
             /\ o.originalGeometry = f.geometry
        /\ o.centroid = o.originalCentroid
        /\ o.centroid = <<SumX(o.geometry.coordinates)
                            \div CountPoints(o.geometry.coordinates),
                          SumY(o.geometry.coordinates)
                            \div CountPoints(o.geometry.coordinates)>>
        /\ selectedOverlayId' = o.id]_vars

\* a second overlay was added after the first one had been moved and turned
AddedBesideMovedOverlay ==
  /\ Len(overlays) = 2
  /\ overlays[1].offset # <<0, 0>>
  /\ overlays[1].rotation # 0
  /\ overlays[2].offset = <<0, 0>>
  /\ CountPoints(overlays[2].originalGeometry.coordinates) > 0
  /\ selectedOverlayId = overlays[2].id

----------------------------------------------------------------------------
(* Presses, taps and the switch between gestures *)

PressOn(b) ==
  \/ \E latlng \in InputsTwo.geos : \E shiftKey \in BOOLEAN :
       \E button \in InputsTwo.buttons :
         PressExact(b, latlng, shiftKey) /\ MouseDown(b, button, latlng, shiftKey)
  \/ \E touches \in InputsTwo.touchLists : \E latlng \in InputsTwo.geos :
       /\ ~(Len(touches) = 1 /\ comp[b].lastTapAge < DOUBLE_TAP_MS)
       /\ TouchStart(b, touches, latlng)

\* C13: a gesture starts only on an overlay that is selected and in edit
\* mode when the input arrives: over every step that keeps the list and
\* takes an overlay from no gesture into Dragging or Rotating, that overlay
\* was selected and in edit mode before the step.
GestureStartsOnSelectedEditable ==
  [][\A i \in Overlay :
       /\ Len(overlays') = Len(overlays)
       /\ ~Gesturing(i)
       /\ comp'[i].isDragging \/ comp'[i].isRotating
       => isEditMode(i) /\ isSelected(i)]_vars

\* C14: a press or touch start on an overlay that is not in edit mode or not
\* selected does nothing: no overlay, selection, edit mode, gesture, map
\* panning or container class changes.
PressOnInactiveIsNoOp ==
  [][\A b \in Overlay :
       (~(isEditMode(b) /\ isSelected(b)) /\ PressOn(b))
       => /\ overlays' = overlays
          /\ selectedOverlayId' = selectedOverlayId
          /\ editModeId' = editModeId
          /\ \A i \in Overlay :
               /\ comp'[i].isDragging = comp[i].isDragging
               /\ comp'[i].isRotating = comp[i].isRotating
               /\ comp'[i].dragStart = comp[i].dragStart
          /\ mapDragging' = mapDragging
          /\ mapClasses' = mapClasses]_vars

\* a double click on overlay i, or the second of two single-finger touch
\* starts on it less than DOUBLE_TAP_MS apart
DoubleActivation(i) ==
  \/ DblClick(i)
  \/ \E touches \in Inputs.touchLists : \E latlng \in Inputs.geos :
       /\ Len(touches) = 1
       /\ comp[i].lastTapAge < DOUBLE_TAP_MS
       /\ TouchStart(i, touches, latlng)

\* C15: a double click or double tap on an overlay turns its edit mode on if
\* it was off and off if it was on, and the event starts no gesture: every
\* component is in Dragging or Rotating after it exactly if it was before.
DoubleActivationToggles ==
  [][\A i \in Overlay :
       DoubleActivation(i)
       => /\ editModeId' = IF editModeId = overlays[i].id THEN None ELSE overlays[i].id
          /\ overlays' = overlays
          /\ \A j \in Overlay :
               /\ comp'[j].isDragging = comp[j].isDragging
               /\ comp'[j].isRotating = comp[j].isRotating
               /\ comp'[j].dragStart = comp[j].dragStart]_vars

\* an overlay that is selected and out of edit mode, still held by the drag
\* a first tap started, the tap dated by the handler as no tap at all: what
\* a double tap on an overlay in edit mode leaves
TappedOutOfEditMode ==
  \E i \in Overlay :
    /\ comp[i].isDragging
    /\ gesture[i].kind = "drag"
    /\ gesture[i].lastGeo = None
    /\ ~isEditMode(i)
    /\ isSelected(i)
    /\ comp[i].lastTapAge = DOUBLE_TAP_MS

----------------------------------------------------------------------------
(* Reset and selection *)

\* C21: resetOverlay(id) leaves the overlay with that id at offset [0, 0],
\* rotation 0, mercatorScale 1, its centroid equal to originalCentroid and
\* its geometry equal to originalGeometry, whatever moved or turned it
\* before, and leaves every overlay with another id as it was.
ResetRestoresOriginal ==
  [][\A i \in Overlay :
       ResetOverlay(i)
       => /\ Len(overlays') = Len(overlays)
          /\ \A j \in Overlay :
               IF overlays[j].id = overlays[i].id
               THEN /\ overlays'[j].offset = <<0, 0>>
                    /\ overlays'[j].rotation = 0
                    /\ overlays'[j].mercatorScale = One
                    /\ overlays'[j].centroid = overlays[j].originalCentroid
                    /\ overlays'[j].geometry = overlays[j].originalGeometry
                    /\ overlays'[j].originalCentroid = overlays[j].originalCentroid
                    /\ overlays'[j].originalGeometry = overlays[j].originalGeometry
               ELSE overlays'[j] = overlays[j]]_vars

\* an overlay back on its original geometry and on an original centroid no
\* move computes, beside an overlay of another id that is moved and turned
ResetBesideMovedOverlay ==
  \E i, j \in Overlay :
    /\ overlays[i].id # overlays[j].id
    /\ overlays[i].originalCentroid = <<1, 1>>
    /\ overlays[i].centroid = <<1, 1>>
    /\ overlays[i].offset = <<0, 0>>
    /\ overlays[i].rotation = 0
    /\ overlays[i].geometry = overlays[i].originalGeometry
    /\ overlays[j].rotation # 0
    /\ overlays[j].geometry # overlays[j].originalGeometry

\* the selected id is null or the id of an overlay of the list
SelectionListed ==
  selectedOverlayId = None \/ \E i \in Overlay : overlays[i].id = selectedOverlayId

\* C22: at most one overlay is selected, and the selected id is null or the
\* id of an overlay of the list.
AtMostOneSelectedAndListed ==
  /\ \A i, j \in Overlay : (isSelected(i) /\ isSelected(j)) => i = j
  /\ SelectionListed

----------------------------------------------------------------------------
(* Two-finger rotation *)

\* C23: the two-finger rotation negates the angle it takes from the screen,
\* where y grows downward: a touch move that turns the line between the two
\* fingers by d on the screen (d < 0 is counter-clockwise as seen) turns the
\* overlay by -d in the longitude/latitude plane, where rotateCoordinates
\* turns counter-clockwise for positive angles.
TouchRotationNegatesScreenAngle ==
  [][\A i \in Overlay : \A touches \in Inputs.touchLists : \A latlng \in Inputs.geos :
       /\ Len(touches) = 2
       /\ comp[i].isRotating
       /\ IsSome(comp[i].lastTouchAngle)
       /\ comp[i].startRotation = overlays[i].rotation
       /\ TouchMove(touches, latlng)
       => overlays'[i].rotation =
            overlays[i].rotation
              - (getTouchAngle(touches[1], touches[2]) - Get(comp[i].lastTouchAngle))]_vars

----------------------------------------------------------------------------
(* The geometry functions *)

RECURSIVE Shape(_)
Shape(c) ==
  IF IsPoint(c) THEN Pt(0, 0)
  ELSE Node([i \in 1..Len(c.kids) |-> Shape(c.kids[i])])

\* C25: translateCoordinates and rotateCoordinates keep the shape of the
\* tree (nesting depth, number of rings and points at every level): the
\* overlay's geometry has the shape of its originalGeometry, and so has
\* every translation and every rotation of it.
TransformsKeepShape ==
  LET o == overlays[1]
      T == o.geometry.coordinates
  IN  /\ Shape(T) = Shape(o.originalGeometry.coordinates)
      /\ \A delta \in Deltas :
           Shape(translateCoordinates(T, delta[1], delta[2])) = Shape(T)
      /\ \A angleRad \in Angles :
           Shape(rotateCoordinates(T, o.centroid[1], o.centroid[2], angleRad)) = Shape(T)

\* a MultiPolygon (three levels of nesting) that was translated and turned
TurnedMultiPolygon ==
  /\ overlays[1].geometry.type = "MultiPolygon"
  /\ overlays[1].rotation # 0
  /\ overlays[1].offset # <<0, 0>>
  /\ overlays[1].geometry # overlays[1].originalGeometry

\* p < q for two fractions with positive denominators
FracLess(p, q) == p[1] * q[2] < q[1] * p[2]

\* the latitudes the scale factor is compared at
Latitudes == {-120, -90, -85, -60, -30, 0, 30, 60, 85, 90, 120}

----------------------------------------------------------------------------
(* Moves and edge-pan *)

\* a mousemove and a touchmove step on the inputs B
MouseMoveStep(B, latlng, client) ==
  /\ \A i \in Overlay : MouseAnglesExact(i, latlng)
  /\ AllInRange(MouseMoveResults(latlng, client), B)
  /\ MouseMove(latlng, client)

TouchMoveStep(B, touches, latlng) ==
  /\ AllInRange(TouchMoveResults(touches, latlng), B)
  /\ TouchMove(touches, latlng)

\* C27: a move event during a gesture changes a preview only: it writes no
\* overlay of the list; offset, rotation and geometry are written at release.
MovesOnlyPreview ==
  [][(\/ \E latlng \in Inputs.geos : \E client \in Inputs.clients :
           MouseMoveStep(Inputs, latlng, client)
      \/ \E touches \in Inputs.touchLists : \E latlng \in Inputs.geos :
           TouchMoveStep(Inputs, touches, latlng))
     => overlays' = overlays]_vars

\* the pointer is farther than the margin from every edge of the map
OutsideMargin(client) == EdgePanVector(client[1], client[2]) = <<0, 0>>

\* C28: after a move event, during a drag or a rotation, whose pointer (every
\* contact of a touch move) is outside the margin, the component in the
\* gesture has no edge-pan interval running.
EdgePanStopsOutsideMargin ==
  [][\A i \in Overlay :
       /\ Gesturing(i)
       /\ \/ \E latlng \in Inputs.geos : \E client \in Inputs.clients :
               OutsideMargin(client) /\ MouseMoveStep(Inputs, latlng, client)
          \/ \E touches \in Inputs.touchLists : \E latlng \in Inputs.geos :
               /\ \A k \in 1..Len(touches) : OutsideMargin(touches[k])
               /\ TouchMoveStep(Inputs, touches, latlng)
       => comp'[i].edgePanInterval = None]_vars

\* C29: while the edge-pan interval runs, its pans go toward the edges the
\* pointer is nearest to at its latest position: after a mouse move in the
\* margin during a gesture, the interval of the component in the gesture
\* pans by the vector of that position.
EdgePanFollowsPointer ==
  [][\A i \in Overlay : \A latlng \in InputsEdge.geos : \A client \in InputsEdge.clients :
       /\ Gesturing(i)
       /\ ~OutsideMargin(client)
       /\ MouseMoveStep(InputsEdge, latlng, client)
       => comp'[i].edgePanInterval = Some(EdgePanVector(client[1], client[2]))]_vars

\* C30: every move of a drag writes the rotation the overlay had at the
\* press, and every move of a rotation writes the offset (and with it the
\* centroid) the overlay had when the rotation started.  The moves are the
\* steps, other than the Reset button, that write an overlay in a gesture.
GestureKeepsOtherTransform ==
  [][\A i \in Overlay :
       /\ Len(overlays') = Len(overlays)
       /\ Gesturing(i)
       /\ overlays'[i] # overlays[i]
       /\ ~ResetOverlay(i)
       => /\ comp[i].isDragging =>
               overlays'[i].rotation = Get(gesture[i].startRotation)
          /\ comp[i].isRotating =>
               /\ overlays'[i].offset = Get(gesture[i].startOffset)
               /\ overlays'[i].centroid =
                    <<overlays[i].originalCentroid[1] + Get(gesture[i].startOffset)[1],
                      overlays[i].originalCentroid[2] + Get(gesture[i].startOffset)[2]>>]_vars


\* C31: a firing of the edge-pan timer only pans the map.  In every step that
\* is a firing, however the firings are interleaved with presses, moves and
\* releases, no overlay changes (offset, rotation, centroid, geometry and
\* mercatorScale included), and the refs of every component (the gesture
\* state and the snapshot taken at the gesture's start) stay as they were.
TickOnlyPans ==
  [][EdgePanTick => UNCHANGED <<overlays, comp, gesture, selectedOverlayId,
                                editModeId, mapDragging, mapClasses>>]_vars

\* a firing during a drag that has moved the overlay
TickedWhileDragging ==
  \E i \in Overlay :
    /\ comp[i].isDragging
    /\ overlays[i].offset # <<0, 0>>
    /\ IsSome(comp[i].edgePanInterval)
    /\ lastPanBy = comp[i].edgePanInterval

----------------------------------------------------------------------------
(* Edit mode *)

\* the edit-mode id is null or the id of an overlay of the list
EditModeListed ==
  editModeId = None \/ \E i \in Overlay : overlays[i].id = editModeId

\* C32: at most one overlay is edit-enabled at a time (so enabling edit mode
\* on one overlay disables it on the one that had it), and after any
\* sequence of double activations, edit buttons, removals and Clear All the
\* edit-mode id is null or the id of an overlay of the list.
AtMostOneEditEnabledAndListed ==
  /\ \A i, j \in Overlay : (isEditMode(i) /\ isEditMode(j)) => i = j
  /\ EditModeListed

----------------------------------------------------------------------------
(* Touch end *)

\* a touch move, whatever its contacts, changes no component and updates no
\* overlay
TouchMovesChangeNothing ==
  \A touches \in Inputs.touchLists : \A latlng \in Inputs.geos : \A i \in Overlay :
    TouchMoveOne(overlays[i], comp[i], gesture[i], touches, latlng)
      = Unchanged(comp[i], gesture[i])

\* C33: lifting a contact ends the whole gesture.  A touchend or touchcancel
\* handled while a component is Dragging or Rotating leaves every component
\* Idle, however many contacts are still down (the handler does not look at
\* them), and in the state it leaves the moves of a remaining contact change
\* nothing; they go on changing nothing until a press starts a gesture.
LiftEndsGesture ==
  [][TouchEnd => (~SomeGesture /\ TouchMovesChangeNothing)']_vars

\* an overlay a single-finger drag has moved, released before the double-tap
\* window has passed
TouchDragReleased ==
  \E i \in Overlay :
    /\ ~SomeGesture
    /\ comp[i].lastTapAge = 0
    /\ overlays[i].offset # <<0, 0>>
    /\ isEditMode(i) /\ isSelected(i)

----------------------------------------------------------------------------
(* Start position of a rotation *)

\* C34: a mouse move handled while the component is Rotating finds a start
\* position recorded.  The handler takes its rotate branch when the snapshot
\* is set and isRotating is true, and there it reads the snapshot's latlng;
\* a mouse move may arrive in any state, so in every state in which the
\* branch would be taken the latlng is recorded.
RotateBranchHasStartPosition ==
  \A i \in Overlay :
    (comp[i].isRotating /\ IsSome(comp[i].dragStart))
      => IsSome(Get(comp[i].dragStart).latlng)

----------------------------------------------------------------------------
(* Reset button *)

\* C35: the sidebar offers the Reset button of an overlay exactly when the
\* overlay's scale, rounded to a whole percent, is not 100 or its rotation,
\* rounded to whole degrees, is not 0; the offset plays no part, so an
\* overlay moved without a change of either has no Reset button.
ResetOfferedIffTransformed ==
  \A i \in Overlay :
    (ENABLED ResetOverlay(i))
      <=> (scalePercent(overlays[i]) # 100 \/ rotationDeg(overlays[i]) # 0)

\* an overlay moved along its parallel and rescaled there: no Reset button
MovedWithoutReset ==
  \E i \in Overlay :
    /\ overlays[i].offset[1] # 0
    /\ overlays[i].offset[2] = 0
    /\ overlays[i].rotation = 0
    /\ overlays[i].mercatorScale = One
    /\ overlays[i].geometry # overlays[i].originalGeometry
    /\ ~ENABLED ResetOverlay(i)

----------------------------------------------------------------------------
(* Boundary loaders *)

\* C36: each boundary loader caches a successful load and nothing else.  A
\* call made while the cache is set returns the cached collection and makes
\* no fetch; a call made while it is unset fetches.  A fetch that ends well
\* sets the cache to the collection the call returns; a fetch or parse that
\* fails makes the call return an empty FeatureCollection and leaves the
\* cache as it was, so that the next call fetches again; a cache once set
\* keeps its collection.
LoaderCachesSuccessOnly ==
  [][\A src \in SourceSet :
       /\ Len(hooks') = Len(hooks) + 1
            => IF cached[src] # None
               THEN /\ hooks'[Len(hooks')].loads[src] = cached[src]
                    /\ fetchCount'[src] = fetchCount[src]
               ELSE /\ hooks'[Len(hooks')].loads[src] = None
                    /\ fetchCount'[src] = fetchCount[src] + 1
       /\ \A h \in Hook :
            (Len(hooks') = Len(hooks) /\ hooks[h].loads[src] = None
               /\ hooks'[h].loads[src] # None)
            => \/ /\ hooks'[h].loads[src] = Some(LoadedCollection(src))
                  /\ cached'[src] = hooks'[h].loads[src]
               \/ /\ hooks'[h].loads[src] = Some(EmptyCollection)
                  /\ cached'[src] = cached[src]
       /\ cached[src] # None => cached'[src] = cached[src]]_vars

\* a second instance mounted after the first one's load of one source went
\* well and that of another failed: the first source was fetched once and
\* is returned from the cache, the other is fetched again
SecondCallAfterFailure ==
  /\ Len(hooks) = 2
  /\ hooks[1].loads["US"] = Some(LoadedCollection("US"))
  /\ hooks[1].loads["IN"] = Some(EmptyCollection)
  /\ fetchCount["US"] = 1
  /\ hooks[2].loads["US"] = cached["US"]
  /\ fetchCount["IN"] = 2
  /\ hooks[2].loads["IN"] = None

\* the features of the state list that came from one source
FromSource(states, src) == SelectSeq(states, LAMBDA f : f.country = src)

\* C37: while an instance of the search hook stays mounted its isLoading
\* becomes false in the end, whether each source loads or fails.  The state
\* list it has then holds, for every source, the features of that source if
\* its load went well and none if it failed, whatever the other sources did.
\* An instance unmounted before its load is through never has its state
\* list or isLoading set.
LoadSettles ==
  /\ \A h \in 1..MaxMounts :
       (h \in Hook) ~> (h \in Hook /\ (~hooks[h].isLoading \/ ~hooks[h].mounted))
  /\ [](\A h \in Hook : \A src \in SourceSet :
          ~hooks[h].isLoading
            => /\ hooks[h].loads[src] \in {Some(LoadedCollection(src)),
                                           Some(EmptyCollection)}
               /\ Len(FromSource(hooks[h].allStates, src))
                    = Len(Get(hooks[h].loads[src]).features)
               /\ \A k \in 1..Len(Get(hooks[h].loads[src]).features) :
                    \E j \in 1..Len(hooks[h].allStates) :
                      hooks[h].allStates[j] = Get(hooks[h].loads[src]).features[k])
  /\ [][\A h \in Hook :
          ~hooks[h].mounted
            => /\ hooks'[h].allStates = hooks[h].allStates
               /\ hooks'[h].isLoading = hooks[h].isLoading]_vars

\* a first instance unmounted during its load, which went through without
\* setting anything, and a second one that has the features of two sources
\* beside a source that failed
LoadedBesideFailure ==
  /\ Len(hooks) = 2
  /\ ~hooks[1].mounted /\ hooks[1].settled
  /\ hooks[1].isLoading /\ hooks[1].allStates = <<>>
  /\ hooks[2].mounted /\ ~hooks[2].isLoading
  /\ hooks[2].loads["IN"] = Some(EmptyCollection)
  /\ Len(FromSource(hooks[2].allStates, "US")) = 2
  /\ Len(FromSource(hooks[2].allStates, "PK")) = 2
  /\ Len(hooks[2].allStates) = 4

\* the features of the collections now cached
CachedFeatures ==
  UNION {{Get(cached[src]).features[k] : k \in 1..Len(Get(cached[src]).features)} :
           src \in {s \in SourceSet : cached[s] # None}}

----------------------------------------------------------------------------
(* Search box *)

\* C39: in the search box the highlighted index, which counts from 0, is 0
\* or an index of the current result list after any sequence of ArrowUp,
\* ArrowDown, mouse-enter and changes of the list; it is set to 0 by every
\* step that changes the results or the query; and Enter picks a result
\* only while the list is open and the highlighted entry exists, the
\* overlay added being made of that entry.
HighlightStaysValid ==
  /\ [](\A h \in Hook :
          hooks[h].mounted
            => \/ box.highlightedIndex = 0
               \/ box.highlightedIndex + 1 \in 1..Len(Results(h)))
  /\ [][\A h \in Hook :
          (/\ Len(hooks') = Len(hooks)
           /\ hooks[h].mounted /\ hooks'[h].mounted
           /\ \/ hooks'[h].searchQuery # hooks[h].searchQuery
              \/ searchResults(hooks'[h].searchQuery, hooks'[h].allStates)
                   # Results(h))
            => box'.highlightedIndex = 0]_vars
  /\ [][\A h \in Hook : \A now \in Stamps :
          (KeyDown(h, "Enter", now) /\ overlays' # overlays)
            => /\ box.isOpen
               /\ box.highlightedIndex + 1 \in 1..Len(Results(h))
               /\ overlays' = Append(overlays,
                    NewOverlay(Results(h)[box.highlightedIndex + 1], now))]_vars

\* the last of at least three results is highlighted, after an earlier pick
LastResultHighlighted ==
  \E h \in Hook :
    /\ hooks[h].mounted
    /\ box.isOpen
    /\ Len(Results(h)) >= 3
    /\ box.highlightedIndex = Len(Results(h)) - 1
    /\ Len(overlays) > 0

========================================================================
